---- MODULE Spec2Model ----
(***************************************************************************)
(* Model of the realtime middle tier (app/backend/rtmt.py): a relay        *)
(* between a client websocket and the upstream realtime websocket.  Each   *)
(* session runs two pump loops (from_client_to_server and                  *)
(* from_server_to_client); every text frame goes through                   *)
(* _process_message_to_server or _process_message_to_client.               *)
(***************************************************************************)
EXTENDS Integers, Sequences, FiniteSets, TLC

\* ---------------------------------------------------------------- bounds
Sessions == {1, 2}
MaxUp == 3          \* upstream frames a session reads
MaxDown == 1        \* client frames a session reads
MaxOut == 2         \* entries in the output list of a response.done
RewriteFrames == 1  \* frames per direction when every event is tried
SharedFrames == 2   \* upstream frames per session when two sessions run

\* ------------------------------------------------------- Python values
\* Python's None; no string of the alphabets below equals it.
None == "None"

\* An empty dict.
EmptyDict == [k \in {} |-> None]

\* d[k] = v on a dict
DictSet(d, k, v) == [x \in (DOMAIN d) \cup {k} |-> IF x = k THEN v ELSE d[x]]

\* list.pop(i) for 0 <= i < len(list); i is the Python (0-based) index
Pop(list, i) == [k \in 1..(Len(list) - 1) |-> IF k <= i THEN list[k] ELSE list[k + 1]]

\* ------------------------------------------------------------ JSON text
\* A JSON text is a byte layout (fmt) of a JSON value (json).  json.dumps
\* always produces the layout "dumps"; a peer may send the same value in
\* another layout ("wire"), or bytes that are no JSON at all ("garbage").
json_dumps(value) == [fmt |-> "dumps", json |-> value]

json_loads(data) == data.json

\* updated_message = msg.data: the text as it was received
Unchanged_redumped(msg) == json_dumps(json_loads(msg.data))

Unchanged(msg) == msg.data

Parseable(data) == data.fmt # "garbage"

\* json.dumps of a value that is not a str: here a list of one string
json_dumps_list(v) == "[\"" \o v \o "\"]"

\* ---------------------------------------------------------- ToolResult
TO_SERVER == 1
TO_CLIENT == 2

\* ToolResult.text is None, a str, or some other JSON-serialisable value
ResultTexts ==
    { [py |-> "None", v |-> ""],
      [py |-> "str", v |-> "found"],
      [py |-> "list", v |-> "doc1"] }

ToolResults == [text : ResultTexts, destination : {TO_SERVER, TO_CLIENT}]

to_text(result) ==
    IF result.text.py = "None" THEN ""
    ELSE IF result.text.py = "str" THEN result.text.v
    ELSE json_dumps_list(result.text.v)

\* -------------------------------------------------------- configuration
\* Tool names the system message of app.py tells the model to call.
ToolNames == {"search", "report_grounding"}

\* The registries attach_rag_tools may leave behind, in insertion order.
Registries == { <<>>, <<"search">>, <<"search", "report_grounding">> }

Schema(name) == [type |-> "function", name |-> name]

\* the server-enforced configuration set by the constructor and app.py
system_message == "You are a helpful assistant."
temperature == None
max_tokens == None
disable_audio == None
voice_choice == None
voice_model_type == "aoai_realtime"
input_audio_transcription == "whisper-1"
default_vad_config ==
    [type |-> "server_vad", threshold |-> "0.5", prefix_padding_ms |-> 300,
     silence_duration_ms |-> 500, create_response |-> TRUE]

\* RTMiddleTier has no attribute default_server_vad_config: neither the
\* class body nor __init__ binds it, so reading it raises AttributeError.
HasAttr_default_server_vad_config == FALSE

\* ------------------------------------------------------------- events
\* JSON null
JNull == [py |-> "None"]

CallIds == {"c1", "c2"}
ItemIds == {"i1", "i2"}

\* session payloads upstream reports in session.created
UpstreamSessions ==
    [instructions : {"", "internal prompt"},
     tools : {<<>>, <<Schema("search")>>},
     tool_choice : {"none", "auto"},
     voice : {"alloy"}]

\* session payloads a client asks for in session.update
ClientSessions ==
    { EmptyDict,
      [instructions |-> "client prompt", tools |-> <<Schema("client_tool")>>,
       tool_choice |-> "required", voice |-> "alloy"] }

FunctionCallItems ==
    [type : {"function_call"}, call_id : CallIds, name : ToolNames,
     arguments : {"{\"q\":\"x\"}"}]

\* entries of response.output
OutputEntries ==
    { [type |-> "function_call", id |-> "f1"],
      [type |-> "message", id |-> "m1"],
      [type |-> "message", id |-> "m2"] }

RECURSIVE SeqsUpTo(_, _)
SeqsUpTo(S, n) ==
    IF n = 0 THEN {<<>>}
    ELSE LET shorter == SeqsUpTo(S, n - 1)
         IN  shorter \cup {Append(q, e) : q \in shorter, e \in S}

OutputLists == SeqsUpTo(OutputEntries, MaxOut)

SessionCreatedEvents ==
    {[type |-> "session.created", session |-> p] : p \in UpstreamSessions}

ResponseDoneEvents ==
    {[type |-> "response.done", response |-> [output |-> o]] : o \in OutputLists}
    \cup {[type |-> "response.done"]}

ToolProtocolEvents ==
    {[type |-> "conversation.item.created", previous_item_id |-> p,
      item |-> [type |-> "function_call", call_id |-> c]] : c \in CallIds, p \in ItemIds}
    \cup {[type |-> "response.output_item.done", item |-> i] : i \in FunctionCallItems}

OtherUpstreamEvents ==
    { [type |-> "response.output_item.added", item |-> [type |-> "function_call"]],
      [type |-> "response.output_item.added", item |-> [type |-> "message"]],
      [type |-> "conversation.item.created", previous_item_id |-> "i1",
       item |-> [type |-> "function_call_output", call_id |-> "c1"]],
      [type |-> "conversation.item.created", previous_item_id |-> "i1",
       item |-> [type |-> "message"]],
      [type |-> "response.function_call_arguments.delta"],
      [type |-> "response.function_call_arguments.done"],
      [type |-> "response.output_item.done", item |-> [type |-> "message"]],
      [type |-> "response.audio.delta"],
      [delta |-> "no type"],
      JNull }

UpstreamEvents ==
    SessionCreatedEvents \cup ResponseDoneEvents \cup ToolProtocolEvents
        \cup OtherUpstreamEvents

ClientEvents ==
    {[type |-> "session.update", session |-> p] : p \in ClientSessions}
    \cup { [type |-> "input_audio_buffer.append"],
           [type |-> "session.update"],
           [delta |-> "no type"],
           JNull }

\* a websocket message: its frame type and its payload
TextMsg(data) == [type |-> "TEXT", data |-> data]

\* msg.type == aiohttp.WSMsgType.TEXT
IsText_any(msg) == TRUE

IsText(msg) == msg.type = "TEXT"

Garbage == [fmt |-> "garbage", json |-> JNull]

BinaryMsg == [type |-> "BINARY", data |-> Garbage]

Layouts == {"wire", "dumps"}

MsgsOf(events) ==
    {TextMsg([fmt |-> f, json |-> e]) : f \in Layouts, e \in events}
    \cup {TextMsg(Garbage), BinaryMsg}

UpstreamMsgs == MsgsOf(UpstreamEvents)

ClientMsgs == MsgsOf(ClientEvents)

Wire(event) == TextMsg([fmt |-> "wire", json |-> event])

ItemCreatedMsg(call_id, previous_item_id) ==
    Wire([type |-> "conversation.item.created", previous_item_id |-> previous_item_id,
          item |-> [type |-> "function_call", call_id |-> call_id]])

ItemDoneMsg(call_id, name) ==
    Wire([type |-> "response.output_item.done",
          item |-> [type |-> "function_call", call_id |-> call_id, name |-> name,
                    arguments |-> "{\"q\":\"x\"}"]])

ResponseDoneMsg(output) == Wire([type |-> "response.done", response |-> [output |-> output]])

\* the frames of the tool protocol
ToolMsgs ==
    { ItemCreatedMsg("c1", "i1"), ItemCreatedMsg("c1", "i2"), ItemCreatedMsg("c2", "i1"),
      ItemDoneMsg("c1", "search"), ItemDoneMsg("c2", "search"),
      ItemDoneMsg("c1", "report_grounding"),
      Wire([type |-> "response.done"]) }

\* one frame for every branch of _process_message_to_client
RelayUpstreamMsgs ==
    ToolMsgs
    \cup {Wire(e) : e \in OtherUpstreamEvents}
    \cup { Wire([type |-> "session.created",
                 session |-> [instructions |-> "internal prompt",
                              tools |-> <<Schema("search")>>,
                              tool_choice |-> "auto", voice |-> "alloy"]]),
           ResponseDoneMsg(<<[type |-> "message", id |-> "m1"]>>),
           ResponseDoneMsg(<<[type |-> "function_call", id |-> "f1"]>>),
           TextMsg(Garbage), BinaryMsg }

\* one frame for every branch of _process_message_to_server
RelayClientMsgs ==
    { Wire([type |-> "session.update", session |-> EmptyDict]),
      Wire([type |-> "input_audio_buffer.append"]),
      Wire([delta |-> "no type"]),
      Wire(JNull),
      TextMsg(Garbage), BinaryMsg }

\* ------------------------------------------- _process_message_to_server
\* lines 201-224: the overlay of the server configuration on the session
SessionUpdate(session, registry) ==
    LET s1 == IF system_message # None
              THEN DictSet(session, "instructions", system_message) ELSE session
        s2 == IF temperature # None THEN DictSet(s1, "temperature", temperature) ELSE s1
        s3 == IF max_tokens # None
              THEN DictSet(s2, "max_response_output_tokens", max_tokens) ELSE s2
        s4 == IF disable_audio # None
              THEN DictSet(s3, "disable_audio", disable_audio) ELSE s3
        s5 == IF voice_model_type = "aoai_realtime"
              THEN DictSet(s4, "voice", voice_choice)
              ELSE DictSet(s4, "voice", [name |-> voice_choice, type |-> "azure-standard"])
        s6 == IF input_audio_transcription # None
              THEN DictSet(s5, "input_audio_transcription",
                           [model |-> input_audio_transcription])
              ELSE s5
        s7 == DictSet(s6, "turn_detection", default_vad_config)
        s8 == DictSet(s7, "tool_choice", IF Len(registry) > 0 THEN "auto" ELSE "none")
    IN  DictSet(s8, "tools", [i \in 1..Len(registry) |-> Schema(registry[i])])

\* the result of _process_message_to_server: the exception raised, or the
\* text to forward (<<>> for None)
ServerRaise(name) == [exc |-> name, ret |-> <<>>]

ServerReturn(data) == [exc |-> "", ret |-> data]

_process_message_to_server(msg, registry) ==
    IF ~Parseable(msg.data) THEN ServerRaise("JSONDecodeError")
    ELSE LET message == json_loads(msg.data) IN
         IF message = JNull THEN ServerReturn(<<Unchanged(msg)>>)
         ELSE IF "type" \notin DOMAIN message THEN ServerRaise("KeyError")
         ELSE IF message.type = "session.update"
         THEN IF "session" \notin DOMAIN message THEN ServerRaise("KeyError")
              ELSE IF ~HasAttr_default_server_vad_config
              THEN ServerRaise("AttributeError")
              ELSE ServerReturn(<<json_dumps(DictSet(message, "session",
                                    SessionUpdate(message.session, registry)))>>)
         ELSE ServerReturn(<<Unchanged(msg)>>)

\* ------------------------------------------- _process_message_to_client
\* lines 184-187: enumerate(reversed(output)) with output.pop(i) in the
\* loop body.  idx is the position of the reverse iterator (0-based), i the
\* enumerate counter; the iterator stops as soon as idx is outside the list.
RECURSIVE StripLoop(_, _, _, _)
StripLoop(output, idx, i, replace) ==
    IF idx >= 0 /\ idx < Len(output)
    THEN IF output[idx + 1].type = "function_call"
         THEN IF i < Len(output)
              THEN StripLoop(Pop(output, i), idx - 1, i + 1, TRUE)
              ELSE [exc |-> "IndexError", output |-> output, replace |-> TRUE]
         ELSE StripLoop(output, idx - 1, i + 1, replace)
    ELSE [exc |-> "", output |-> output, replace |-> replace]

StripFunctionCalls(output) == StripLoop(output, Len(output) - 1, 0, FALSE)

\* the JSON objects the relay itself sends
FunctionCallOutput(call_id, output) ==
    [type |-> "conversation.item.create",
     item |-> [type |-> "function_call_output", call_id |-> call_id, output |-> output]]

ResponseCreate == [type |-> "response.create"]

ToolResponse(previous_id, tool_name, tool_result) ==
    [type |-> "extension.middle_tier_tool_response", previous_item_id |-> previous_id,
     tool_name |-> tool_name, tool_result |-> tool_result]

RTToolCall(tool_call_id, previous_id) ==
    [tool_call_id |-> tool_call_id, previous_id |-> previous_id]

IsItem(message, type) == "item" \in DOMAIN message /\ message.item.type = type

InRegistry(name, registry) == \E i \in 1..Len(registry) : registry[i] = name

\* The result of _process_message_to_client up to its return or to the
\* await of the tool: exc is the exception raised ("" for none), ret the
\* text to forward (<<>> for None), pending the table afterwards, server the
\* objects passed to server_ws.send_json, call the function call whose tool
\* is about to be awaited (<<>> for none).
ClientResult(exc, ret, pending, server, call) ==
    [exc |-> exc, ret |-> ret, pending |-> pending, server |-> server, call |-> call]

Forward(msg, pending) == ClientResult("", <<Unchanged(msg)>>, pending, <<>>, <<>>)

Suppress(pending) == ClientResult("", <<>>, pending, <<>>, <<>>)

ClientRaise_swallowed(name, pending) == Suppress(pending)

ClientRaise(name, pending) == ClientResult(name, <<>>, pending, <<>>, <<>>)

\* case "session.created"
SessionCreated_keeps_tools(session) ==
    LET s1 == DictSet(session, "instructions", "")
        s3 == IF voice_model_type = "aoai_realtime"
              THEN DictSet(s1, "voice", voice_choice)
              ELSE DictSet(s1, "voice", [name |-> voice_choice, type |-> "azure-standard"])
        s4 == DictSet(s3, "tool_choice", "none")
        s5 == DictSet(s4, "input_audio_transcription", [model |-> input_audio_transcription])
        s6 == DictSet(s5, "turn_detection", default_vad_config)
    IN  DictSet(s6, "max_response_output_tokens", None)

SessionCreated(session) ==
    LET s1 == DictSet(session, "instructions", "")
        s2 == DictSet(s1, "tools", <<>>)
        s3 == IF voice_model_type = "aoai_realtime"
              THEN DictSet(s2, "voice", voice_choice)
              ELSE DictSet(s2, "voice", [name |-> voice_choice, type |-> "azure-standard"])
        s4 == DictSet(s3, "tool_choice", "none")
        s5 == DictSet(s4, "input_audio_transcription", [model |-> input_audio_transcription])
        s6 == DictSet(s5, "turn_detection", default_vad_config)
    IN  DictSet(s6, "max_response_output_tokens", None)

\* case "response.output_item.added"
OutputItemAdded(msg, message, pending) ==
    IF IsItem(message, "function_call") THEN Suppress(pending) ELSE Forward(msg, pending)

\* case "conversation.item.created"
ItemCreated_shows_output(msg, message, pending) ==
    IF IsItem(message, "function_call")
    THEN ClientResult("", <<>>,
                      IF message.item.call_id \notin DOMAIN pending
                      THEN DictSet(pending, message.item.call_id,
                                   RTToolCall(message.item.call_id, message.previous_item_id))
                      ELSE pending,
                      <<>>, <<>>)
    ELSE Forward(msg, pending)

ItemCreated_overwrites(msg, message, pending) ==
    IF IsItem(message, "function_call")
    THEN ClientResult("", <<>>,
                      DictSet(pending, message.item.call_id,
                              RTToolCall(message.item.call_id, message.previous_item_id)),
                      <<>>, <<>>)
    ELSE IF IsItem(message, "function_call_output") THEN Suppress(pending)
    ELSE Forward(msg, pending)

ItemCreated(msg, message, pending) ==
    IF IsItem(message, "function_call")
    THEN ClientResult("", <<>>,
                      IF message.item.call_id \notin DOMAIN pending
                      THEN DictSet(pending, message.item.call_id,
                                   RTToolCall(message.item.call_id, message.previous_item_id))
                      ELSE pending,
                      <<>>, <<>>)
    ELSE IF IsItem(message, "function_call_output") THEN Suppress(pending)
    ELSE Forward(msg, pending)

\* case "response.output_item.done", up to the await of the tool
OutputItemDone_consumes(msg, message, pending, registry) ==
    IF IsItem(message, "function_call")
    THEN IF message.item.call_id \notin DOMAIN pending THEN ClientRaise("KeyError", pending)
         ELSE IF ~InRegistry(message.item.name, registry)
         THEN ClientRaise("KeyError", pending)
         ELSE ClientResult("", <<>>,
                           [c \in DOMAIN pending \ {message.item.call_id} |-> pending[c]],
                           <<>>,
                           <<[item |-> message.item,
                              tool_call |-> pending[message.item.call_id]]>>)
    ELSE Forward(msg, pending)

OutputItemDone_lenient(msg, message, pending, registry) ==
    IF IsItem(message, "function_call")
    THEN ClientResult("", <<>>, pending, <<>>,
                      <<[item |-> message.item,
                         tool_call |-> IF message.item.call_id \in DOMAIN pending
                                       THEN pending[message.item.call_id]
                                       ELSE RTToolCall(message.item.call_id, None)]>>)
    ELSE Forward(msg, pending)

OutputItemDone(msg, message, pending, registry) ==
    IF IsItem(message, "function_call")
    THEN IF message.item.call_id \notin DOMAIN pending THEN ClientRaise("KeyError", pending)
         ELSE IF ~InRegistry(message.item.name, registry)
         THEN ClientRaise("KeyError", pending)
         ELSE ClientResult("", <<>>, pending, <<>>,
                           <<[item |-> message.item,
                              tool_call |-> pending[message.item.call_id]]>>)
    ELSE Forward(msg, pending)

\* case "response.done"
ResponseDone_keeps_pending(msg, message, pending) ==
    LET flush == Cardinality(DOMAIN pending) > 0
        table == pending
        sent == IF flush THEN <<json_dumps(ResponseCreate)>> ELSE <<>>
    IN  IF "response" \notin DOMAIN message
        THEN ClientResult("", <<Unchanged(msg)>>, table, sent, <<>>)
        ELSE IF "output" \notin DOMAIN message.response
        THEN ClientResult("KeyError", <<>>, table, sent, <<>>)
        ELSE LET r == StripFunctionCalls(message.response.output) IN
             IF r.exc # "" THEN ClientResult(r.exc, <<>>, table, sent, <<>>)
             ELSE IF r.replace
             THEN ClientResult("", <<json_dumps(DictSet(message, "response",
                                     DictSet(message.response, "output", r.output)))>>,
                               table, sent, <<>>)
             ELSE ClientResult("", <<Unchanged(msg)>>, table, sent, <<>>)

ResponseDone_always_creates(msg, message, pending) ==
    LET flush == TRUE
        table == IF flush THEN EmptyDict ELSE pending
        sent == IF flush THEN <<json_dumps(ResponseCreate)>> ELSE <<>>
    IN  IF "response" \notin DOMAIN message
        THEN ClientResult("", <<Unchanged(msg)>>, table, sent, <<>>)
        ELSE IF "output" \notin DOMAIN message.response
        THEN ClientResult("KeyError", <<>>, table, sent, <<>>)
        ELSE LET r == StripFunctionCalls(message.response.output) IN
             IF r.exc # "" THEN ClientResult(r.exc, <<>>, table, sent, <<>>)
             ELSE IF r.replace
             THEN ClientResult("", <<json_dumps(DictSet(message, "response",
                                     DictSet(message.response, "output", r.output)))>>,
                               table, sent, <<>>)
             ELSE ClientResult("", <<Unchanged(msg)>>, table, sent, <<>>)

ResponseDone(msg, message, pending) ==
    LET flush == Cardinality(DOMAIN pending) > 0
        table == IF flush THEN EmptyDict ELSE pending
        sent == IF flush THEN <<json_dumps(ResponseCreate)>> ELSE <<>>
    IN  IF "response" \notin DOMAIN message
        THEN ClientResult("", <<Unchanged(msg)>>, table, sent, <<>>)
        ELSE IF "output" \notin DOMAIN message.response
        THEN ClientResult("KeyError", <<>>, table, sent, <<>>)
        ELSE LET r == StripFunctionCalls(message.response.output) IN
             IF r.exc # "" THEN ClientResult(r.exc, <<>>, table, sent, <<>>)
             ELSE IF r.replace
             THEN ClientResult("", <<json_dumps(DictSet(message, "response",
                                     DictSet(message.response, "output", r.output)))>>,
                               table, sent, <<>>)
             ELSE ClientResult("", <<Unchanged(msg)>>, table, sent, <<>>)

_process_message_to_client(msg, pending, registry) ==
    IF ~Parseable(msg.data) THEN ClientRaise("JSONDecodeError", pending)
    ELSE LET message == json_loads(msg.data) IN
         IF message = JNull THEN Forward(msg, pending)
         ELSE IF "type" \notin DOMAIN message THEN ClientRaise("KeyError", pending)
         ELSE CASE message.type = "session.created" ->
                   ClientResult("", <<json_dumps(DictSet(message, "session",
                                        SessionCreated(message.session)))>>,
                                pending, <<>>, <<>>)
                [] message.type = "response.output_item.added" ->
                   OutputItemAdded(msg, message, pending)
                [] message.type = "conversation.item.created" ->
                   ItemCreated(msg, message, pending)
                [] message.type = "response.function_call_arguments.delta" ->
                   Suppress(pending)
                [] message.type = "response.function_call_arguments.done" ->
                   Suppress(pending)
                [] message.type = "response.output_item.done" ->
                   OutputItemDone(msg, message, pending, registry)
                [] message.type = "response.done" ->
                   ResponseDone(msg, message, pending)
                [] OTHER -> Forward(msg, pending)

\* line 162: the output of the function_call_output item sent upstream
FunctionOutput_unrouted(result) == to_text(result)

FunctionOutput(result) ==
    IF result.destination = TO_SERVER THEN to_text(result) ELSE ""

\* ---------------------------------------------------------------- state
VARIABLES
    tools,            \* RTMiddleTier.tools: the registered tool names, in order
    _tools_pending,   \* RTMiddleTier._tools_pending: call_id -> RTToolCall
    owner,            \* history: the session that registered each pending call
    handler_pc,       \* per session: "none", "gather" or "exited"
    c2s_pc,           \* from_client_to_server: "none", "run", "done", "raised"
    s2c_pc,           \* from_server_to_client: "none", "run", "tool", "done", "raised"
    client_open,      \* per session: ws is open
    target_open,      \* per session: target_ws is open
    call,             \* per session: the function call whose tool is awaited
    up_seq,           \* per session: frames read from target_ws
    down_seq,         \* per session: frames read from ws
    client_log,       \* history, per session: origin of each frame sent on ws
    server_log,       \* history, per session: origin of each frame sent on target_ws
    last              \* history: the last pump step, its input and what it sent

vars == <<tools, _tools_pending, owner, handler_pc, c2s_pc, s2c_pc, client_open,
          target_open, call, up_seq, down_seq, client_log, server_log, last>>

\* RTMiddleTier is constructed and its tools attached; no client yet.  The
\* one _tools_pending dict is created with the class and is the dict every
\* session reads and writes through self._tools_pending.
Init ==
    /\ tools \in Registries
    /\ _tools_pending = EmptyDict
    /\ owner = EmptyDict
    /\ handler_pc = [s \in Sessions |-> "none"]
    /\ c2s_pc = [s \in Sessions |-> "none"]
    /\ s2c_pc = [s \in Sessions |-> "none"]
    /\ client_open = [s \in Sessions |-> FALSE]
    /\ target_open = [s \in Sessions |-> FALSE]
    /\ call = [s \in Sessions |-> <<>>]
    /\ up_seq = [s \in Sessions |-> 0]
    /\ down_seq = [s \in Sessions |-> 0]
    /\ client_log = [s \in Sessions |-> <<>>]
    /\ server_log = [s \in Sessions |-> <<>>]
    /\ last = [op |-> "init"]

\* ------------------------------------------------------------- actions
\* _websocket_handler and _forward_messages up to the gather: the client
\* connection is prepared, the upstream one opened, both pumps started.
Accept(s) ==
    /\ handler_pc[s] = "none"
    /\ handler_pc' = [handler_pc EXCEPT ![s] = "gather"]
    /\ c2s_pc' = [c2s_pc EXCEPT ![s] = "run"]
    /\ s2c_pc' = [s2c_pc EXCEPT ![s] = "run"]
    /\ client_open' = [client_open EXCEPT ![s] = TRUE]
    /\ target_open' = [target_open EXCEPT ![s] = TRUE]
    /\ UNCHANGED <<tools, _tools_pending, owner, call, up_seq, down_seq,
                   client_log, server_log, last>>

\* the origin the frames sent in a step get in the logs
Tagged(frames, origin, n) == [i \in 1..Len(frames) |-> <<origin, n>>]

\* from_client_to_server takes the next frame whenever it is between two
\* passes of its loop body, whatever from_server_to_client is doing
C2SReady_unless_tool(s) == c2s_pc[s] = "run" /\ s2c_pc[s] # "tool"

C2SReady(s) == c2s_pc[s] = "run"

\* from_client_to_server reads one frame (lines 246-252); send_str on a
\* closed target_ws raises ConnectionResetError
C2SRead(s, msg) ==
    /\ C2SReady(s)
    /\ client_open[s]
    /\ down_seq[s] < MaxDown
    /\ LET n == down_seq[s] + 1
           r == IF IsText(msg)
                THEN _process_message_to_server(msg, tools)
                ELSE ServerReturn(<<>>)
           reset == r.exc = "" /\ r.ret # <<>> /\ ~target_open[s]
           exc == IF reset THEN "ConnectionResetError" ELSE r.exc
           sent == IF exc = "" THEN r.ret ELSE <<>>
       IN  /\ down_seq' = [down_seq EXCEPT ![s] = n]
           /\ c2s_pc' = [c2s_pc EXCEPT ![s] = IF exc = "" THEN "run" ELSE "raised"]
           /\ server_log' = [server_log EXCEPT ![s] = @ \o Tagged(sent, "down", n)]
           /\ last' = [op |-> "c2s", s |-> s, n |-> n, msg |-> msg, exc |-> exc,
                       to_server |-> sent, to_client |-> <<>>]
    /\ UNCHANGED <<tools, _tools_pending, owner, handler_pc, s2c_pc, client_open,
                   target_open, call, up_seq, client_log>>

\* the loop of from_client_to_server ends when ws is closed; the pump then
\* closes target_ws (lines 254-257)
C2SEnd(s) ==
    /\ c2s_pc[s] = "run"
    /\ ~client_open[s]
    /\ c2s_pc' = [c2s_pc EXCEPT ![s] = "done"]
    /\ target_open' = [target_open EXCEPT ![s] = FALSE]
    /\ UNCHANGED <<tools, _tools_pending, owner, handler_pc, s2c_pc, client_open,
                   call, up_seq, down_seq, client_log, server_log, last>>

\* from_server_to_client takes the next frame only between two passes of
\* its loop body: the tool is awaited inside the pass (line 156)
S2CReady_while_awaiting(s) == s2c_pc[s] \in {"run", "tool"}

S2CReady(s) == s2c_pc[s] = "run"

\* from_server_to_client reads one frame (lines 260-267) and runs
\* _process_message_to_client up to its return or to the await of the tool;
\* send_str on a closed ws raises ConnectionResetError
S2CRead(s, msg) ==
    /\ S2CReady(s)
    /\ target_open[s]
    /\ up_seq[s] < MaxUp
    /\ LET n == up_seq[s] + 1
           r == IF IsText(msg)
                THEN _process_message_to_client(msg, _tools_pending, tools)
                ELSE Suppress(_tools_pending)
           reset == r.exc = "" /\ r.ret # <<>> /\ ~client_open[s]
           exc == IF reset THEN "ConnectionResetError" ELSE r.exc
           fwd == IF exc = "" THEN r.ret ELSE <<>>
       IN  /\ up_seq' = [up_seq EXCEPT ![s] = n]
           /\ _tools_pending' = r.pending
           /\ owner' = [c \in DOMAIN r.pending |->
                          IF c \in DOMAIN _tools_pending THEN owner[c] ELSE s]
           /\ s2c_pc' = [s2c_pc EXCEPT ![s] = IF exc # "" THEN "raised"
                                               ELSE IF r.call # <<>> THEN "tool"
                                               ELSE @]
           /\ call' = [call EXCEPT ![s] =
                          IF exc = "" /\ r.call # <<>>
                          THEN <<[item |-> r.call[1].item,
                                  tool_call |-> r.call[1].tool_call, n |-> n]>>
                          ELSE @]
           /\ server_log' = [server_log EXCEPT ![s] = @ \o Tagged(r.server, "up", n)]
           /\ client_log' = [client_log EXCEPT ![s] = @ \o Tagged(fwd, "up", n)]
           /\ last' = [op |-> "s2c", s |-> s, n |-> n, msg |-> msg, exc |-> exc,
                       before |-> DOMAIN _tools_pending,
                       to_server |-> r.server, to_client |-> fwd]
    /\ UNCHANGED <<tools, handler_pc, c2s_pc, client_open, target_open, down_seq>>

\* the awaited tool returns its ToolResult and lines 157-174 run; send_json
\* on a closed connection raises ConnectionResetError
ToolReturn(s, result) ==
    /\ s2c_pc[s] = "tool"
    /\ call[s] # <<>>
    /\ LET c == call[s][1]
           reset1 == ~target_open[s]
           sent == IF reset1 THEN <<>>
                   ELSE <<json_dumps(FunctionCallOutput(c.item.call_id,
                                                        FunctionOutput(result)))>>
           extension == ~reset1 /\ result.destination = TO_CLIENT
           reset2 == extension /\ ~client_open[s]
           ext == IF extension /\ ~reset2
                  THEN <<json_dumps(ToolResponse(c.tool_call.previous_id, c.item.name,
                                                 to_text(result)))>>
                  ELSE <<>>
           exc == IF reset1 \/ reset2 THEN "ConnectionResetError" ELSE ""
       IN  /\ s2c_pc' = [s2c_pc EXCEPT ![s] = IF exc = "" THEN "run" ELSE "raised"]
           /\ call' = [call EXCEPT ![s] = <<>>]
           /\ server_log' = [server_log EXCEPT ![s] = @ \o Tagged(sent, "up", c.n)]
           /\ client_log' = [client_log EXCEPT ![s] = @ \o Tagged(ext, "up", c.n)]
           /\ last' = [op |-> "tool", s |-> s, n |-> c.n, call |-> c, result |-> result,
                       exc |-> exc, before |-> DOMAIN _tools_pending,
                       to_server |-> sent, to_client |-> ext]
    /\ UNCHANGED <<tools, _tools_pending, owner, handler_pc, c2s_pc, client_open,
                   target_open, up_seq, down_seq>>

\* the loop of from_server_to_client ends when target_ws is closed
S2CEnd(s) ==
    /\ s2c_pc[s] = "run"
    /\ ~target_open[s]
    /\ s2c_pc' = [s2c_pc EXCEPT ![s] = "done"]
    /\ UNCHANGED <<tools, _tools_pending, owner, handler_pc, c2s_pc, client_open,
                   target_open, call, up_seq, down_seq, client_log, server_log, last>>

\* asyncio.gather returns once both pumps have returned, and raises as soon
\* as one of them raises
GatherOver(s) ==
    \/ c2s_pc[s] = "raised"
    \/ s2c_pc[s] = "raised"
    \/ (c2s_pc[s] = "done" /\ s2c_pc[s] = "done")

\* _forward_messages leaves the gather (lines 269-273): the two "async
\* with" blocks close target_ws, and the return of the handler ends the
\* client connection.  A pump that is still running is not cancelled.
Exit(s) ==
    /\ handler_pc[s] = "gather"
    /\ GatherOver(s)
    /\ handler_pc' = [handler_pc EXCEPT ![s] = "exited"]
    /\ target_open' = [target_open EXCEPT ![s] = FALSE]
    /\ client_open' = [client_open EXCEPT ![s] = FALSE]
    /\ UNCHANGED <<tools, _tools_pending, owner, c2s_pc, s2c_pc, call, up_seq,
                   down_seq, client_log, server_log, last>>

\* the client closes its connection
ClientClose(s) ==
    /\ handler_pc[s] = "gather"
    /\ client_open[s]
    /\ client_open' = [client_open EXCEPT ![s] = FALSE]
    /\ UNCHANGED <<tools, _tools_pending, owner, handler_pc, c2s_pc, s2c_pc,
                   target_open, call, up_seq, down_seq, client_log, server_log, last>>

\* the upstream service closes its connection
UpstreamClose(s) ==
    /\ handler_pc[s] = "gather"
    /\ target_open[s]
    /\ target_open' = [target_open EXCEPT ![s] = FALSE]
    /\ UNCHANGED <<tools, _tools_pending, owner, handler_pc, c2s_pc, s2c_pc,
                   client_open, call, up_seq, down_seq, client_log, server_log, last>>

\* ------------------------------------------------------- specifications
\* One client: every action of a session, one frame for every branch.
Next ==
    \/ Accept(1)
    \/ \E msg \in RelayClientMsgs : C2SRead(1, msg)
    \/ C2SEnd(1)
    \/ \E msg \in RelayUpstreamMsgs : S2CRead(1, msg)
    \/ \E result \in ToolResults : ToolReturn(1, result)
    \/ S2CEnd(1)
    \/ Exit(1)
    \/ ClientClose(1)
    \/ UpstreamClose(1)

Spec == Init /\ [][Next]_vars

\* The scheduling of the event loop: a pump whose source is closed is
\* resumed, an awaited tool returns, a finished gather is left.  Nothing
\* obliges a peer to send a frame or to close.
Fairness ==
    /\ WF_vars(C2SEnd(1))
    /\ WF_vars(S2CEnd(1))
    /\ WF_vars(\E result \in ToolResults : ToolReturn(1, result))
    /\ WF_vars(Exit(1))

FairSpec == Spec /\ Fairness

\* The two transforms on every event of the alphabets, in both layouts.
NextRewrite ==
    \/ Accept(1)
    \/ \E msg \in ClientMsgs : down_seq[1] < RewriteFrames /\ C2SRead(1, msg)
    \/ \E msg \in UpstreamMsgs : up_seq[1] < RewriteFrames /\ S2CRead(1, msg)

SpecRewrite == Init /\ [][NextRewrite]_vars

\* Two clients at once, upstream running the tool protocol with each.
NextShared ==
    \E s \in Sessions :
        \/ Accept(s)
        \/ \E msg \in ToolMsgs : up_seq[s] < SharedFrames /\ S2CRead(s, msg)
        \/ \E result \in ToolResults : ToolReturn(s, result)

SpecShared == Init /\ [][NextShared]_vars

\* --------------------------------------------------------------- claims
\* the event a message carries, if it carries one
IsEvent(msg) ==
    /\ msg.type = "TEXT"
    /\ Parseable(msg.data)
    /\ json_loads(msg.data) # JNull
    /\ "type" \in DOMAIN json_loads(msg.data)

TypeOf(msg) == IF IsEvent(msg) THEN json_loads(msg.data).type ELSE ""

\* the events of the function-call protocol the client is not to see
Hidden(e) ==
    /\ "type" \in DOMAIN e
    /\ \/ e.type \in {"response.function_call_arguments.delta",
                      "response.function_call_arguments.done"}
       \/ /\ e.type \in {"response.output_item.added", "response.output_item.done"}
          /\ IsItem(e, "function_call")
       \/ /\ e.type = "conversation.item.created"
          /\ (IsItem(e, "function_call") \/ IsItem(e, "function_call_output"))

HasOutput(e) == "response" \in DOMAIN e /\ "output" \in DOMAIN e.response

NotFunctionCall(o) == o.type # "function_call"

HasFunctionCall(output) == \E i \in 1..Len(output) : output[i].type = "function_call"

RegisteredSchemas == [i \in 1..Len(tools) |-> Schema(tools[i])]

\* C1: every session.update a client sends is forwarded upstream as a
\* session.update whose tools are exactly the registered schemas and whose
\* tool_choice is "auto" iff the registry is non-empty.
C1_SessionUpdateForwarded ==
    (/\ last.op = "c2s"
     /\ TypeOf(last.msg) = "session.update"
     /\ "session" \in DOMAIN json_loads(last.msg.data))
    => /\ Len(last.to_server) = 1
       /\ LET out == json_loads(last.to_server[1])
          IN  /\ out.type = "session.update"
              /\ out.session.tools = RegisteredSchemas
              /\ out.session.tool_choice = (IF Len(tools) > 0 THEN "auto" ELSE "none")

\* C2: no frame delivered to the client is an event of the function-call
\* protocol (argument deltas, function_call items added or done, created
\* function_call or function_call_output items).
C2_NoFunctionCallFrames ==
    last.op # "init"
    => \A i \in 1..Len(last.to_client) : ~Hidden(json_loads(last.to_client[i]))

C2_Witness ==
    /\ last.op = "s2c"
    /\ IsEvent(last.msg)
    /\ Hidden(json_loads(last.msg.data))
    /\ last.exc = ""
    /\ last.to_client = <<>>

\* C3: a response.done with an output list is forwarded with every
\* function_call entry removed and every other entry kept, in order; with
\* no function_call entry it is forwarded as received.
C3_ResponseDoneStripped ==
    (/\ last.op = "s2c"
     /\ TypeOf(last.msg) = "response.done"
     /\ HasOutput(json_loads(last.msg.data)))
    => /\ Len(last.to_client) = 1
       /\ LET output == json_loads(last.msg.data).response.output
              out == json_loads(last.to_client[1])
          IN  /\ out.response.output = SelectSeq(output, NotFunctionCall)
              /\ ~HasFunctionCall(output) => last.to_client[1] = last.msg.data

\* C4: when the tool of a function call has returned its result and the
\* sends go through, a TO_SERVER result gives one function_call_output with
\* the call_id and the result text upstream and nothing to the client; a
\* TO_CLIENT result gives one function_call_output with empty output
\* upstream and one extension.middle_tier_tool_response with the result
\* text to the client.
C4_ToolResultRouted ==
    (last.op = "tool" /\ last.exc = "")
    => LET text == to_text(last.result)
           id == last.call.item.call_id
       IN  IF last.result.destination = TO_SERVER
           THEN /\ last.to_server = <<json_dumps(FunctionCallOutput(id, text))>>
                /\ last.to_client = <<>>
           ELSE /\ last.to_server = <<json_dumps(FunctionCallOutput(id, ""))>>
                /\ Len(last.to_client) = 1
                /\ json_loads(last.to_client[1]).type = "extension.middle_tier_tool_response"
                /\ json_loads(last.to_client[1]).tool_result = text

C4_Witness ==
    /\ last.op = "tool"
    /\ last.exc = ""
    /\ last.result.destination = TO_CLIENT
    /\ last.result.text.py = "list"
    /\ Len(last.to_client) = 1
    /\ Len(last.to_server) = 1

\* C5: a step of one session never removes or changes a pending tool call
\* that another session registered.
C5_SessionsIsolated ==
    [][\A c \in DOMAIN _tools_pending :
          (last' # last /\ last'.s # owner[c])
          => (c \in DOMAIN _tools_pending' /\ _tools_pending'[c] = _tools_pending[c])]_vars

\* C6: a response.done processed while calls are pending sends exactly one
\* response.create upstream and leaves the table empty.
C6_ResponseDoneFlushes ==
    (/\ last.op = "s2c"
     /\ TypeOf(last.msg) = "response.done"
     /\ last.before # {})
    => /\ last.to_server = <<json_dumps(ResponseCreate)>>
       /\ DOMAIN _tools_pending = {}

C6_Witness ==
    /\ last.op = "s2c"
    /\ TypeOf(last.msg) = "response.done"
    /\ Cardinality(last.before) = 2
    /\ last.to_server = <<json_dumps(ResponseCreate)>>

\* C7: every session.created is delivered to the client with instructions
\* "", tools [] and tool_choice "none".
C7_SessionCreatedMasked ==
    (last.op = "s2c" /\ TypeOf(last.msg) = "session.created")
    => /\ Len(last.to_client) = 1
       /\ LET out == json_loads(last.to_client[1])
          IN  /\ out.type = "session.created"
              /\ out.session.instructions = ""
              /\ out.session.tools = <<>>
              /\ out.session.tool_choice = "none"

C7_Witness ==
    /\ last.op = "s2c"
    /\ TypeOf(last.msg) = "session.created"
    /\ json_loads(last.msg.data).session.instructions = "internal prompt"
    /\ json_loads(last.msg.data).session.tools # <<>>
    /\ json_loads(last.msg.data).session.tool_choice = "auto"
    /\ Len(last.to_client) = 1

\* C8: once the client connection of a running session is closed, the
\* upstream connection gets closed and the upstream->client pump ends; once
\* the upstream connection is closed, the client connection gets closed and
\* the client->upstream pump ends.
C8_CloseTerminates ==
    \A s \in Sessions :
        /\ (handler_pc[s] = "gather" /\ ~client_open[s])
               ~> (~target_open[s] /\ s2c_pc[s] \in {"done", "raised"})
        /\ (handler_pc[s] = "gather" /\ ~target_open[s])
               ~> (~client_open[s] /\ c2s_pc[s] \in {"done", "raised"})

\* C9: in each direction the frames sent on appear in the order in which
\* the frames that produced them were read; the extension event of a
\* function call takes the place of its response.output_item.done.
Ordered(log, origin) ==
    \A i, j \in 1..Len(log) :
        (i < j /\ log[i][1] = origin /\ log[j][1] = origin) => log[i][2] <= log[j][2]

C10_ForwardedAsReceived ==
    /\ (last.op = "c2s" /\ IsEvent(last.msg) /\ TypeOf(last.msg) # "session.update")
       => (last.exc = "" /\ last.to_server = <<last.msg.data>>)
    /\ (/\ last.op = "s2c"
        /\ IsEvent(last.msg)
        /\ TypeOf(last.msg) # "session.created"
        /\ ~Hidden(json_loads(last.msg.data))
        /\ ~(/\ TypeOf(last.msg) = "response.done"
             /\ HasOutput(json_loads(last.msg.data))
             /\ HasFunctionCall(json_loads(last.msg.data).response.output)))
       => (last.exc = "" /\ last.to_client = <<last.msg.data>>)

C10_Witness ==
    /\ last.op = "s2c"
    /\ last.msg.data.fmt = "wire"
    /\ TypeOf(last.msg) = "response.done"
    /\ HasOutput(json_loads(last.msg.data))
    /\ Len(json_loads(last.msg.data).response.output) = 2
    /\ last.to_client = <<last.msg.data>>

\* a response.output_item.done of a function call
IsItemDone(msg) ==
    /\ TypeOf(msg) = "response.output_item.done"
    /\ IsItem(json_loads(msg.data), "function_call")

\* C11 as claimed: once the response.output_item.done of a call has been
\* processed and its tool result sent, the table no longer holds its call_id.
C11_EntryRemoved ==
    (last.op = "tool" /\ last.exc = "")
    => last.call.item.call_id \notin DOMAIN _tools_pending

\* C11 as amended: processing the response.output_item.done of a call, its
\* lookup as well as the sends after the tool has returned, removes no
\* entry; only a response.done takes entries out of the table.
C11_EntryKept ==
    /\ (last.op = "s2c" /\ TypeOf(last.msg) # "response.done")
       => last.before \subseteq DOMAIN _tools_pending
    /\ (last.op = "s2c" /\ IsItemDone(last.msg) /\ last.exc = "")
       => json_loads(last.msg.data).item.call_id \in DOMAIN _tools_pending
    /\ last.op = "tool" => last.before = DOMAIN _tools_pending

C11_Witness ==
    /\ last.op = "tool"
    /\ last.exc = ""
    /\ last.call.item.call_id \in DOMAIN _tools_pending

\* a session.update that carries a session object
IsSessionUpdate(msg) ==
    /\ TypeOf(msg) = "session.update"
    /\ "session" \in DOMAIN json_loads(msg.data)

\* the value of a field after an override: the policy value if it is set,
\* else whatever the client sent, present or absent
Overridden(field, policy, value, in, out) ==
    IF policy # None
    THEN field \in DOMAIN out /\ out[field] = value
    ELSE /\ (field \in DOMAIN out) <=> (field \in DOMAIN in)
         /\ field \in DOMAIN in => out[field] = in[field]

\* C12: a rewritten session.update carries, for each policy field, the
\* policy value if the field is set and the client's value if it is not
\* (an unset voice choice keeps the client's voice).
C12_PolicyOverlay ==
    (last.op = "c2s" /\ IsSessionUpdate(last.msg))
    => /\ Len(last.to_server) = 1
       /\ LET in == json_loads(last.msg.data).session
              out == json_loads(last.to_server[1]).session
          IN  /\ Overridden("instructions", system_message, system_message, in, out)
              /\ Overridden("temperature", temperature, temperature, in, out)
              /\ Overridden("max_response_output_tokens", max_tokens, max_tokens, in, out)
              /\ Overridden("disable_audio", disable_audio, disable_audio, in, out)
              /\ Overridden("voice", voice_choice,
                            IF voice_model_type = "aoai_realtime" THEN voice_choice
                            ELSE [name |-> voice_choice, type |-> "azure-standard"],
                            in, out)
              /\ Overridden("input_audio_transcription", input_audio_transcription,
                            [model |-> input_audio_transcription], in, out)
              /\ Overridden("turn_detection", "set", default_vad_config, in, out)

\* C13: a response.output_item.done of a function call whose call_id is
\* not pending, or whose tool is not registered, raises: the tool is not
\* awaited, nothing is sent upstream or to the client for it, the pump has
\* ended and the session is over or about to be left.
C13_FailedLookupAborts ==
    (/\ last.op = "s2c"
     /\ IsItemDone(last.msg)
     /\ \/ json_loads(last.msg.data).item.call_id \notin last.before
        \/ ~InRegistry(json_loads(last.msg.data).item.name, tools))
    => /\ last.exc = "KeyError"
       /\ last.to_server = <<>>
       /\ last.to_client = <<>>
       /\ call[last.s] = <<>>
       /\ s2c_pc[last.s] = "raised"
       /\ (handler_pc[last.s] = "exited" \/ ENABLED Exit(last.s))

C13_Witness ==
    /\ last.op = "s2c"
    /\ IsItemDone(last.msg)
    /\ json_loads(last.msg.data).item.call_id \in last.before
    /\ ~InRegistry(json_loads(last.msg.data).item.name, tools)
    /\ last.exc = "KeyError"
    /\ handler_pc[last.s] = "exited"

\* C14: while from_server_to_client awaits a tool, from_client_to_server of
\* the same session still takes client frames and forwards them upstream;
\* from_server_to_client has read no frame after the function call's
\* response.output_item.done, and nothing that arrived with or after that
\* frame has reached the client.
AwaitingTool(s) == s2c_pc[s] = "tool"

C14_ToolBlocksOnlyDownstream ==
    \A s \in Sessions :
        AwaitingTool(s) =>
            /\ call[s] # <<>>
            /\ up_seq[s] = call[s][1].n
            /\ \A i \in DOMAIN client_log[s] :
                   client_log[s][i][1] = "up" => client_log[s][i][2] < call[s][1].n
            /\ \A msg \in RelayUpstreamMsgs : ~ENABLED S2CRead(s, msg)
            /\ (c2s_pc[s] = "run" /\ client_open[s] /\ down_seq[s] < MaxDown)
               => \A msg \in RelayClientMsgs : ENABLED C2SRead(s, msg)
            /\ (/\ last.op = "c2s"
                /\ last.s = s
                /\ IsEvent(last.msg)
                /\ TypeOf(last.msg) # "session.update"
                /\ target_open[s])
               => /\ last.to_server = <<last.msg.data>>
                  /\ server_log[s][Len(server_log[s])] = <<"down", last.n>>
                  /\ c2s_pc[s] = "run"

C14_Witness ==
    /\ AwaitingTool(1)
    /\ last.op = "c2s"
    /\ last.s = 1
    /\ last.to_server # <<>>
    /\ up_seq[1] < MaxUp

IsItemCreated(msg) ==
    /\ TypeOf(msg) = "conversation.item.created"
    /\ IsItem(json_loads(msg.data), "function_call")

\* a step leaves every entry of the table as it is or removes it
EntriesKept ==
    \A c \in DOMAIN _tools_pending :
        c \in DOMAIN _tools_pending' => _tools_pending'[c] = _tools_pending[c]

\* C15: conversation.item.created of a function call registers its
\* previous_item_id when the call_id is not pending; an entry that is pending
\* is never rewritten, only cleared, and the extension event sent to the client
\* for a call carries the previous_item_id the table holds for it.
C15_FirstRegistrationWins ==
    /\ [](/\ (last.op = "s2c" /\ IsItemCreated(last.msg))
             => LET message == json_loads(last.msg.data) IN
                /\ message.item.call_id \in DOMAIN _tools_pending
                /\ message.item.call_id \notin last.before
                   => _tools_pending[message.item.call_id]
                          = RTToolCall(message.item.call_id, message.previous_item_id)
          /\ (last.op = "tool" /\ last.to_client # <<>>)
             => /\ last.call.item.call_id \in DOMAIN _tools_pending
                /\ json_loads(last.to_client[1]).previous_item_id
                       = _tools_pending[last.call.item.call_id].previous_id)
    /\ [][EntriesKept]_vars

C15_Witness ==
    /\ last.op = "s2c"
    /\ last.msg = ItemCreatedMsg("c1", "i2")
    /\ "c1" \in last.before
    /\ _tools_pending["c1"].previous_id = "i1"

\* a text frame that is not JSON, or a JSON object without "type"
Malformed(msg) ==
    /\ IsText(msg)
    /\ \/ ~Parseable(msg.data)
       \/ /\ json_loads(msg.data) # JNull
          /\ "type" \notin DOMAIN json_loads(msg.data)

\* a text frame whose payload is the JSON value null
IsNull(msg) == IsText(msg) /\ Parseable(msg.data) /\ json_loads(msg.data) = JNull

SessionOver(s) == handler_pc[s] = "exited" \/ ENABLED Exit(s)

\* a pump that has raised stays so, reads no further frame and sends nothing
\* more to its side
RaisedIsFinal ==
    \A s \in Sessions :
        /\ c2s_pc[s] = "raised"
           => /\ c2s_pc'[s] = "raised"
              /\ down_seq'[s] = down_seq[s]
              /\ \A i \in DOMAIN server_log'[s] :
                     i > Len(server_log[s]) => server_log'[s][i][1] # "down"
        /\ s2c_pc[s] = "raised"
           => /\ s2c_pc'[s] = "raised"
              /\ up_seq'[s] = up_seq[s]
              /\ client_log'[s] = client_log[s]

\* C16 as stated: no text frame that is not an event (not JSON, or a JSON
\* value without "type") is forwarded, and the pump that read it has ended.
C16_NonEventsAbort ==
    (last.op \in {"c2s", "s2c"} /\ IsText(last.msg) /\ ~IsEvent(last.msg))
    => /\ last.to_server = <<>>
       /\ last.to_client = <<>>
       /\ (IF last.op = "c2s" THEN c2s_pc[last.s] ELSE s2c_pc[last.s]) = "raised"

\* C16, amended: a text frame that is not JSON, or is a JSON object without
\* "type", is not forwarded; the pump that read it has raised, forwards
\* nothing afterwards, and the session is over or about to be left.  The
\* JSON value null is forwarded as received and the pump goes on.
C16_MalformedAborts ==
    /\ [](/\ (last.op \in {"c2s", "s2c"} /\ Malformed(last.msg))
             => /\ last.exc = (IF Parseable(last.msg.data)
                               THEN "KeyError" ELSE "JSONDecodeError")
                /\ last.to_server = <<>>
                /\ last.to_client = <<>>
                /\ (IF last.op = "c2s" THEN c2s_pc[last.s] ELSE s2c_pc[last.s])
                       = "raised"
                /\ SessionOver(last.s)
          /\ (last.op = "c2s" /\ IsNull(last.msg) /\ target_open[last.s])
             => /\ last.exc = ""
                /\ last.to_server = <<last.msg.data>>
          /\ (last.op = "s2c" /\ IsNull(last.msg) /\ client_open[last.s])
             => /\ last.exc = ""
                /\ last.to_client = <<last.msg.data>>)
    /\ [][RaisedIsFinal]_vars

C16_Witness ==
    /\ last.op = "s2c"
    /\ last.msg = Wire([delta |-> "no type"])
    /\ last.exc = "KeyError"
    /\ last.n < MaxUp
    /\ target_open[last.s]

\* the step reads the frame now in last
Reads(op, msg) == last' # last /\ last'.op = op /\ last'.msg = msg

\* C17: reading a non-text frame, on either connection, sends nothing and
\* changes nothing but the pump's position in its stream: both pumps, the
\* connections, the table of pending calls and everything sent so far are as
\* before, so the frames after it are handled as if it had not arrived.
C17_NonTextDropped ==
    [][(Reads("c2s", BinaryMsg) \/ Reads("s2c", BinaryMsg))
       => /\ last'.exc = ""
          /\ last'.to_server = <<>>
          /\ last'.to_client = <<>>
          /\ UNCHANGED <<tools, _tools_pending, owner, handler_pc, c2s_pc, s2c_pc,
                         client_open, target_open, call, client_log, server_log>>]_vars

C17_Witness ==
    /\ last.op = "s2c"
    /\ last.msg = BinaryMsg
    /\ s2c_pc[last.s] = "run"
    /\ _tools_pending # EmptyDict
    /\ last.n < MaxUp

\* C18: every client text frame that is an event (a JSON object with
\* "type", session.update included) makes from_client_to_server send exactly
\* one frame upstream, and does not end that pump.
C18_OneFramePerEvent ==
    (last.op = "c2s" /\ IsEvent(last.msg) /\ target_open[last.s])
    => /\ Len(last.to_server) = 1
       /\ last.exc = ""
       /\ c2s_pc[last.s] # "raised"

IsResponseCreate(data) == data = json_dumps(ResponseCreate)

UpTags(log) == {log[i][2] : i \in {k \in DOMAIN log : log[k][1] = "up"}}

\* C19: a response.create goes upstream only in the step that processes a
\* response.done while calls are pending, after everything the earlier
\* upstream frames caused to be sent, with no tool still awaited; a
\* response.done processed with no call pending sends nothing upstream; when
\* a function_call_output is sent, nothing caused by a later upstream frame
\* has been sent yet.
C19_OutputBeforeCreate ==
    /\ \A i \in (IF last.op = "init" THEN {} ELSE DOMAIN last.to_server) :
           IsResponseCreate(last.to_server[i])
           => /\ last.op = "s2c"
              /\ TypeOf(last.msg) = "response.done"
              /\ last.before # {}
              /\ call[last.s] = <<>>
              /\ server_log[last.s][Len(server_log[last.s])] = <<"up", last.n>>
              /\ \A n \in UpTags(SubSeq(server_log[last.s], 1,
                                        Len(server_log[last.s]) - 1)) : n < last.n
    /\ (last.op = "s2c" /\ TypeOf(last.msg) = "response.done")
       => /\ last.before = {} => last.to_server = <<>>
          /\ last.before # {} => last.to_server = <<json_dumps(ResponseCreate)>>
    /\ (last.op = "tool" /\ last.to_server # <<>>)
       => /\ json_loads(last.to_server[1]).item.type = "function_call_output"
          /\ \A n \in UpTags(server_log[last.s]) : n <= last.n

C19_Witness ==
    /\ last.op = "s2c"
    /\ TypeOf(last.msg) = "response.done"
    /\ last.n = 3
    /\ \E i, j \in DOMAIN server_log[1] :
           /\ i < j
           /\ server_log[1][i] = <<"up", 2>>
           /\ server_log[1][j] = <<"up", 3>>

====
